---------------------------- MODULE Spec2Model ----------------------------
(***************************************************************************)
(* A model of nmtpytorch/models/nmtv2.py: the NMTv2 model class.           *)
(*                                                                         *)
(* Python values of the configuration carry their type: <<"int", 128>>,    *)
(* <<"str", "gru">>, <<"bool", FALSE>>, <<"NoneType">>, so that the str     *)
(* '3way' and any other value stay distinguishable and enc_dim * 2 is       *)
(* computed as Python computes it.  The layers, the vocabulary, the        *)
(* topology and the metric accumulators are external collaborators: what   *)
(* they compute is kept as a symbolic term of their arguments.             *)
(***************************************************************************)
EXTENDS Integers, Sequences, FiniteSets, TLC

\* ------------------------------------------------------------------ bounds
\* Longest config section [model] that is enumerated (number of options).
MaxOpts == 2
\* Longest data loader that is enumerated (number of batches).
MaxBatches == 2

\* ------------------------------------------------------- configuration
\* Python values: ints, strs, bools, None, and floats as num / den.
PyInt(n) == <<"int", n>>
PyStr(x) == <<"str", x>>
PyBool(x) == <<"bool", x>>
PyNone == <<"NoneType">>
PyFloat(num, den) == <<"float", num, den>>

\* v * 2 as Python evaluates it: .err is "TypeError" where the type has no
\* such product, else .val is the product (a str is repeated).
Mul2(v) ==
    CASE v[1] = "int"   -> [err |-> "", val |-> PyInt(v[2] * 2)]
      [] v[1] = "bool"  -> [err |-> "", val |-> PyInt(IF v[2] THEN 2 ELSE 0)]
      [] v[1] = "float" -> [err |-> "", val |-> PyFloat(v[2] * 2, v[3])]
      [] v[1] = "str"   -> [err |-> "", val |-> PyStr(v[2] \o v[2])]
      [] OTHER          -> [err |-> "TypeError", val |-> PyNone]

\* self.defaults as set_defaults() builds it.
set_defaults ==
    [emb_dim |-> PyInt(128), emb_maxnorm |-> PyNone,
     emb_gradscale |-> PyBool(FALSE), enc_dim |-> PyInt(256),
     enc_type |-> PyStr("gru"), n_encoders |-> PyInt(1),
     dec_dim |-> PyInt(256), dec_type |-> PyStr("gru"),
     dec_init |-> PyStr("mean_ctx"), dec_init_activ |-> PyStr("tanh"),
     dec_init_size |-> PyNone, att_type |-> PyStr("mlp"),
     att_temp |-> PyFloat(1, 1), att_activ |-> PyStr("tanh"),
     att_mlp_bias |-> PyBool(FALSE), att_bottleneck |-> PyStr("ctx"),
     att_transform_ctx |-> PyBool(TRUE), concat_outputs |-> PyBool(TRUE),
     n_layers_preatt |-> PyInt(1), n_layers_postatt |-> PyInt(1),
     dropout_emb |-> PyInt(0), dropout_ctx |-> PyInt(0),
     dropout_out |-> PyInt(0), dropout_enc |-> PyInt(0),
     dropout_dec |-> PyInt(0), tied_emb |-> PyBool(FALSE),
     direction |-> PyNone, max_len |-> PyInt(80), bucket_by |-> PyNone]

\* The loop of set_model_options over model_opts.items(), in the dict's
\* order: a known option overrides its default, any other is logged.
RECURSIVE OverrideLoop(_, _, _)
OverrideLoop(items, defaults, logged) ==
    IF items = <<>>
    THEN [defaults |-> defaults, logged |-> logged]
    ELSE LET opt   == Head(items)[1]
             value == Head(items)[2]
         IN  IF opt \in DOMAIN defaults
             THEN OverrideLoop(Tail(items),
                               [defaults EXCEPT ![opt] = value], logged)
             ELSE OverrideLoop(Tail(items), defaults, Append(logged, opt))

\* A set_model_options that stores every option of the config, known or not.
set_model_options_NoCheck(model_opts) ==
    LET RECURSIVE Store(_, _)
        Store(items, d) ==
            IF items = <<>> THEN d
            ELSE Store(Tail(items), (Head(items)[1] :> Head(items)[2]) @@ d)
    IN  [defaults |-> Store(model_opts, set_defaults), logged |-> <<>>]

\* set_model_options(model_opts): the returned dict (.defaults) and the
\* 'unused model option' lines it logged (.logged).
set_model_options(model_opts) ==
    OverrideLoop(model_opts, set_defaults, <<>>)

\* ----------------------------------------------------------------- inputs
Langs == {"en", "de"}
\* len(Vocabulary): the four special tokens, or one word more.
VocabSizes == {4, 5}
\* The options a config section [model] is drawn from; "bogus_opt" and
\* "tied_embs" are not options of the model.
OptPool ==
    {<<"tied_emb", PyBool(FALSE)>>, <<"tied_emb", PyStr("2way")>>,
     <<"tied_emb", PyStr("3way")>>, <<"enc_dim", PyInt(512)>>,
     <<"enc_dim", PyNone>>, <<"bogus_opt", PyInt(1)>>,
     <<"tied_embs", PyStr("3way")>>}

\* Dicts as item sequences: no key occurs twice.
ModelOptsSet ==
    {s \in UNION {[1..n -> OptPool] : n \in 0..MaxOpts} :
        \A i, j \in 1..Len(s) : i # j => s[i][1] # s[j][1]}

\* Section [vocabulary]: language -> size of the vocabulary its file holds.
VocabularySet == UNION {[L -> VocabSizes] : L \in SUBSET Langs}


\* Topology(direction).get_src_langs() / get_trg_langs(): the lists the
\* topology parser hands back.
SrcLangsSet == {<<>>, <<"en">>}
TrgLangsSet == {<<>>, <<"de">>}
\* opts.data['val_set']: the languages it has reference files for.
ValSetSet == {{}, {"de"}}

VARIABLES
    opts_model,        \* opts.model as the config file gave it (item list)
    opts_vocabulary,   \* opts.vocabulary, each file by the size of its vocabulary
    opts_val_set,      \* keys of opts.data['val_set']
    slangs, tlangs,    \* what the topology returns
    phase,             \* "new", "failed", "constructed", "ready" (after setup)
    self,              \* the attributes __init__ has set on the object
    enc, dec,          \* the layers setup() created
    call,              \* the method running or last run: "", "forward", "test_performance"
    pc,                \* position inside it
    data_loader,       \* argument of test_performance
    idx,               \* batches the loader's iterator has handed out
    batch,             \* loop variable of test_performance
    out,               \* what forward returned last
    loss, mrr,         \* the two accumulators of test_performance
    events,            \* collaborator calls of the current method call, in order
    result,            \* what test_performance returned
    returned           \* test_performance calls that have returned: 0, 1, 2 for more

inputs == <<opts_model, opts_vocabulary, opts_val_set, slangs, tlangs>>
object == <<phase, self, enc, dec>>
frame  == <<call, pc, data_loader, idx, batch, out, loss, mrr, events, result, returned>>
vars   == <<inputs, object, frame>>

\* -------------------------------------------------------------- __init__
AssertMsg ==
    "AssertionError: The vocabulary sizes do not match for 3way tied embeddings."

\* The object before any attribute is set (sl, tl: "", sizes: 0 while unset;
\* attrs tells which attributes exist).
NewSelf ==
    [model |-> <<>>, logged |-> <<>>, attrs |-> {}, sl |-> "", tl |-> "",
     n_src_vocab |-> 0, n_trg_vocab |-> 0, ctx_sizes |-> <<>>, err |-> ""]

\* self.opts.model = self.set_model_options(opts.model)
SetupOptions(s, model_opts) ==
    LET r == set_model_options(model_opts)
    IN  [s EXCEPT !.model = r.defaults, !.logged = r.logged,
                  !.attrs = @ \cup {"opts", "vocabs", "aux_loss", "defaults"}]

\* if slangs: self.sl, self.src_vocab, self.n_src_vocab
SetSource(s, vocabs, sl_list) ==
    IF sl_list = <<>> THEN s
    ELSE LET t == [s EXCEPT !.sl = sl_list[1], !.attrs = @ \cup {"sl"}]
         IN  IF sl_list[1] \notin DOMAIN vocabs
             THEN [t EXCEPT !.err = "KeyError"]
             ELSE [t EXCEPT !.n_src_vocab = vocabs[sl_list[1]],
                            !.attrs = @ \cup {"src_vocab", "n_src_vocab"}]

\* if tlangs: self.tl, self.trg_vocab, self.n_trg_vocab
SetTarget(s, vocabs, tl_list) ==
    IF tl_list = <<>> THEN s
    ELSE LET t == [s EXCEPT !.tl = tl_list[1], !.attrs = @ \cup {"tl"}]
         IN  IF tl_list[1] \notin DOMAIN vocabs
             THEN [t EXCEPT !.err = "KeyError"]
             ELSE [t EXCEPT !.n_trg_vocab = vocabs[tl_list[1]],
                            !.attrs = @ \cup {"trg_vocab", "n_trg_vocab"}]

\* if 'enc_dim' in self.opts.model:
\*     self.ctx_sizes = {str(self.sl): self.opts.model['enc_dim'] * 2}
\* (the key is evaluated before the value)
SetCtxSizes(s) ==
    IF "enc_dim" \notin DOMAIN s.model THEN s
    ELSE IF "sl" \notin s.attrs THEN [s EXCEPT !.err = "AttributeError"]
    ELSE IF Mul2(s.model["enc_dim"]).err # ""
         THEN [s EXCEPT !.err = Mul2(s.model["enc_dim"]).err]
    ELSE [s EXCEPT !.ctx_sizes = s.sl :> Mul2(s.model["enc_dim"]).val,
                   !.attrs = @ \cup {"ctx_sizes"}]

\* The check of the vocabulary sizes left out.
CheckTied_NoAssert(s) == s

\* if tied_emb == '3way': assert n_src_vocab == n_trg_vocab
CheckTied(s) ==
    IF s.model["tied_emb"] # PyStr("3way") THEN s
    ELSE IF "n_src_vocab" \notin s.attrs \/ "n_trg_vocab" \notin s.attrs
         THEN [s EXCEPT !.err = "AttributeError"]
    ELSE IF s.n_src_vocab # s.n_trg_vocab THEN [s EXCEPT !.err = AssertMsg]
    ELSE s

\* self.val_refs = self.opts.data['val_set'][self.tl]
SetValRefs(s, val_set) ==
    IF "tl" \notin s.attrs THEN [s EXCEPT !.err = "AttributeError"]
    ELSE IF s.tl \notin val_set THEN [s EXCEPT !.err = "KeyError"]
    ELSE [s EXCEPT !.attrs = @ \cup {"val_refs"}]

\* NMTv2.__init__(opts), statement by statement: a statement runs unless
\* an earlier one has raised; .err names the exception that ended it, if any.
init(model_opts, vocabs, val_set, sl_list, tl_list) ==
    LET s1 == SetupOptions(NewSelf, model_opts)
        s2 == [s1 EXCEPT !.attrs = @ \cup {"topology"}]
        s3 == IF s2.err # "" THEN s2 ELSE SetSource(s2, vocabs, sl_list)
        s4 == IF s3.err # "" THEN s3 ELSE SetTarget(s3, vocabs, tl_list)
        s5 == IF s4.err # "" THEN s4 ELSE SetCtxSizes(s4)
        s6 == IF s5.err # "" THEN s5 ELSE CheckTied(s5)
    IN  IF s6.err # "" THEN s6 ELSE SetValRefs(s6, val_set)

\* ----------------------------------------------------------------- setup
NoEnc == [n_vocab |-> 0, emb_weight |-> ""]
NoDec == [n_vocab |-> 0, tied_emb |-> PyNone, ctx_size_dict |-> <<>>, emb_weight |-> ""]

\* A setup that shares the embedding for every tying mode but False.
setup_TieAny(s) ==
    [enc |-> [n_vocab |-> s.n_src_vocab,
              emb_weight |-> IF s.model["tied_emb"] # PyBool(FALSE)
                             THEN "dec.emb.weight" ELSE "enc.emb.weight"],
     dec |-> [n_vocab |-> s.n_trg_vocab, tied_emb |-> s.model["tied_emb"],
              ctx_size_dict |-> s.ctx_sizes,
              emb_weight |-> "dec.emb.weight"]]

\* setup(): the encoder and the decoder each come with an embedding weight
\* of their own (named by who created it); '3way' rebinds the encoder's.
setup(s) ==
    LET e == [n_vocab |-> s.n_src_vocab, emb_weight |-> "enc.emb.weight"]
        d == [n_vocab |-> s.n_trg_vocab, tied_emb |-> s.model["tied_emb"],
              ctx_size_dict |-> s.ctx_sizes,
              emb_weight |-> "dec.emb.weight"]
    IN  [enc |-> IF s.model["tied_emb"] = PyStr("3way")
                 THEN [e EXCEPT !.emb_weight = d.emb_weight] ELSE e,
         dec |-> d]

\* ------------------------------------------------------------- tensors
\* A tensor: its rows (time steps, each a row of token ids over the batch),
\* the device it lives on, and whether it is wrapped in a Variable.
Tensor(rows) == [v |-> rows, dev |-> "cpu", kind |-> "Tensor"]

\* Target tensors: row 1 is <bos> (1); 0 is <pad>.
TrgPool ==
    {<< <<1, 1>>, <<3, 3>>, <<2, 0>> >>, << <<1>>, <<2>> >>, << <<1>> >>}

\* The batches a loader is made of: one tensor per language.
BatchPool ==
    {("en" :> Tensor(x)) @@ ("de" :> Tensor(y)) :
        x \in {<< <<3, 2>> >>}, y \in TrgPool}
      \cup {("en" :> Tensor(<< <<3>>, <<2>> >>)) @@ ("de" :> Tensor(<< <<1>> >>))}

LoaderSet == UNION {[1..n -> BatchPool] : n \in 0..MaxBatches}

\* batch.to_gpu(volatile=True): every tensor of the batch becomes a Variable
\* on the device.
to_gpu(b) == [l \in DOMAIN b |-> [b[l] EXCEPT !.dev = "gpu", !.kind = "Variable"]]

\* x[1:]: the tensor without its first row.
Slice1(x) == [x EXCEPT !.v = IF @ = <<>> THEN <<>> ELSE Tail(@)]

\* x.data: the tensor a Variable wraps.
Data(x) == [x EXCEPT !.kind = "Tensor"]

\* torch.nonzero(x).shape[0]: the number of non-zero entries.
RECURSIVE RowNonzero(_)
RowNonzero(row) ==
    IF row = <<>> THEN 0
    ELSE (IF Head(row) # 0 THEN 1 ELSE 0) + RowNonzero(Tail(row))

RECURSIVE Nonzero(_)
Nonzero(rows) ==
    IF rows = <<>> THEN 0 ELSE RowNonzero(Head(rows)) + Nonzero(Tail(rows))

\* ------------------------------------------------- external collaborators
\* self.enc(x): the encoder's output, as a term of its input.
EncCall(x) == [op |-> "enc", x |-> x]

\* self.dec(ctx_dict, y): the decoder's result dict, as terms of its inputs.
DecCall(ctx_dict, y) ==
    [loss  |-> [op |-> "dec.loss", ctx |-> ctx_dict, y |-> y],
     logps |-> [op |-> "dec.logps", ctx |-> ctx_dict, y |-> y]]

\* Loss(): an accumulator is the list of the updates it received.
NewLoss == <<>>
LossUpdate(acc, l, n) == Append(acc, <<l, n>>)
LossGet(acc) == [op |-> "Loss.get", updates |-> acc]

\* MeanReciprocalRank(n_vocab)
NewMrr(n_vocab) == [n |-> n_vocab, updates |-> <<>>]
MrrUpdate(acc, y, logps) == [acc EXCEPT !.updates = Append(@, <<y, logps>>)]
NormalizedMrr(acc) ==
    [op |-> "MeanReciprocalRank.normalized_mrr", n |-> acc.n,
     updates |-> acc.updates]

\* Metric(name, score, higher_better)
Metric(name, score, higher_better) ==
    [name |-> name, score |-> score, higher_better |-> higher_better]

\* ------------------------------------------------------ encode, forward
\* encode(batch)
encode(s, b) == s.sl :> EncCall(b[s.sl])

\* forward(batch): the decoder's dict with 'n_items' added.
forward(s, b) ==
    LET r == DecCall(encode(s, b), b[s.tl])
    IN  [loss |-> r.loss, logps |-> r.logps,
         n_items |-> Nonzero(Slice1(b[s.tl]).v)]

Ev(name, i) == [ev |-> name, i |-> i]

\* ------------------------------------------------------------ behaviour
NoMrr == [n |-> 0, updates |-> <<>>]

Init ==
    /\ opts_model \in ModelOptsSet
    /\ opts_vocabulary \in VocabularySet
    /\ opts_val_set \in ValSetSet
    /\ slangs \in SrcLangsSet
    /\ tlangs \in TrgLangsSet
    /\ phase = "new"
    /\ self = NewSelf
    /\ enc = NoEnc
    /\ dec = NoDec
    /\ call = ""
    /\ pc = "idle"
    /\ data_loader = <<>>
    /\ idx = 0
    /\ batch = <<>>
    /\ out = <<>>
    /\ loss = <<>>
    /\ mrr = NoMrr
    /\ events = <<>>
    /\ result = <<>>
    /\ returned = 0

\* No method of the object is running.
AtRest == pc \in {"idle", "done", "raised"}

\* model = NMTv2(opts)
Construct ==
    /\ phase = "new"
    /\ self' = init(opts_model, opts_vocabulary, opts_val_set, slangs, tlangs)
    /\ phase' = IF self'.err = "" THEN "constructed" ELSE "failed"
    /\ UNCHANGED <<inputs, enc, dec, frame>>

\* model.setup()
Setup ==
    /\ phase \in {"constructed", "ready"}
    /\ AtRest
    /\ enc' = setup(self).enc
    /\ dec' = setup(self).dec
    /\ phase' = "ready"
    /\ UNCHANGED <<inputs, self, frame>>

\* model.forward(b), called from outside (the training loop)
ForwardCall(b) ==
    /\ phase = "ready"
    /\ AtRest
    /\ call' = "forward"
    /\ out' = <<forward(self, b)>>
    /\ events' = <<Ev("encode", 0), Ev("decode", 0)>>
    /\ pc' = "done"
    /\ data_loader' = <<>>
    /\ idx' = 0
    /\ batch' = <<b>>
    /\ loss' = <<>>
    /\ mrr' = NoMrr
    /\ result' = <<>>
    /\ UNCHANGED <<inputs, object, returned>>

\* A test_performance that keeps the accumulators of the call before.
TP_Begin_Stale(loader) ==
    /\ phase = "ready"
    /\ AtRest
    /\ call' = "test_performance"
    /\ data_loader' = loader
    /\ idx' = 0
    /\ batch' = <<>>
    /\ out' = <<>>
    /\ loss' = loss
    /\ mrr' = IF mrr = NoMrr THEN NewMrr(self.n_trg_vocab) ELSE mrr
    /\ events' = <<>>
    /\ result' = <<>>
    /\ pc' = "for"
    /\ UNCHANGED <<inputs, object, returned>>

\* test_performance(loader) is entered: loss = Loss(); mrr = MeanReciprocalRank(...)
TP_Begin(loader) ==
    /\ phase = "ready"
    /\ AtRest
    /\ call' = "test_performance"
    /\ data_loader' = loader
    /\ idx' = 0
    /\ batch' = <<>>
    /\ out' = <<>>
    /\ loss' = NewLoss
    /\ mrr' = NewMrr(self.n_trg_vocab)
    /\ events' = <<>>
    /\ result' = <<>>
    /\ pc' = "for"
    /\ UNCHANGED <<inputs, object, returned>>

\* An iteration that hands the batches out last to first.
TP_Next_Reversed ==
    /\ pc = "for"
    /\ IF idx < Len(data_loader)
       THEN /\ batch' = <<data_loader[Len(data_loader) - idx]>>
            /\ idx' = idx + 1
            /\ pc' = "to_gpu"
       ELSE /\ pc' = "return"
            /\ UNCHANGED <<batch, idx>>
    /\ UNCHANGED <<inputs, object, call, data_loader, out, loss, mrr, events, result, returned>>

\* for batch in data_loader: the next batch, or the end of the loop
TP_Next ==
    /\ pc = "for"
    /\ IF idx < Len(data_loader)
       THEN /\ batch' = <<data_loader[idx + 1]>>
            /\ idx' = idx + 1
            /\ pc' = "to_gpu"
       ELSE /\ pc' = "return"
            /\ UNCHANGED <<batch, idx>>
    /\ UNCHANGED <<inputs, object, call, data_loader, out, loss, mrr, events, result, returned>>

\* batch.to_gpu(volatile=True)
TP_ToGpu ==
    /\ pc = "to_gpu"
    /\ batch' = <<to_gpu(batch[1])>>
    /\ events' = Append(events, Ev("to_gpu", idx))
    /\ pc' = "forward"
    /\ UNCHANGED <<inputs, object, call, data_loader, idx, out, loss, mrr, result, returned>>

\* out = self.forward(batch)
TP_Forward ==
    /\ pc = "forward"
    /\ out' = <<forward(self, batch[1])>>
    /\ events' = events \o <<Ev("encode", idx), Ev("decode", idx)>>
    /\ pc' = "loss_update"
    /\ UNCHANGED <<inputs, object, call, data_loader, idx, batch, loss, mrr, result, returned>>

\* loss.update(out['loss'], out['n_items'])
TP_LossUpdate ==
    /\ pc = "loss_update"
    /\ loss' = LossUpdate(loss, out[1].loss, out[1].n_items)
    /\ events' = Append(events, Ev("loss.update", idx))
    /\ pc' = "mrr_update"
    /\ UNCHANGED <<inputs, object, call, data_loader, idx, batch, out, mrr, result, returned>>

\* mrr.update(batch[self.tl][1:].data, out['logps'])
TP_MrrUpdate ==
    /\ pc = "mrr_update"
    /\ mrr' = MrrUpdate(mrr, Data(Slice1(batch[1][self.tl])), out[1].logps)
    /\ events' = Append(events, Ev("mrr.update", idx))
    /\ pc' = "for"
    /\ UNCHANGED <<inputs, object, call, data_loader, idx, batch, out, loss, result, returned>>

\* return [Metric('LOSS', loss.get(), ...), Metric('MRR', mrr.normalized_mrr(), ...)]
TP_Return ==
    /\ pc = "return"
    /\ result' = << <<Metric("LOSS", LossGet(loss), FALSE),
                      Metric("MRR", NormalizedMrr(mrr), TRUE)>> >>
    /\ events' = events \o <<Ev("loss.get", 0), Ev("normalized_mrr", 0)>>
    /\ pc' = "done"
    /\ returned' = IF returned < 2 THEN returned + 1 ELSE returned
    /\ UNCHANGED <<inputs, object, call, data_loader, idx, batch, out, loss, mrr>>

\* loss.get() raises instead: an accumulator that saw no update has nothing
\* to normalize by, and the call ends with the exception.
TP_ReturnRaises ==
    /\ pc = "return"
    /\ loss = <<>>
    /\ events' = Append(events, Ev("loss.get", 0))
    /\ pc' = "raised"
    /\ UNCHANGED <<inputs, object, call, data_loader, idx, batch, out, loss, mrr, result, returned>>

Next ==
    \/ Construct
    \/ Setup
    \/ \E b \in BatchPool : ForwardCall(b) \/ ForwardCall(to_gpu(b))
    \/ \E loader \in LoaderSet : TP_Begin(loader)
    \/ TP_Next
    \/ TP_ToGpu
    \/ TP_Forward
    \/ TP_LossUpdate
    \/ TP_MrrUpdate
    \/ TP_Return
    \/ TP_ReturnRaises

Spec == Init /\ [][Next]_vars

\* =================================================================== claims
\* The positions of the config section that set option k.
Sets(k) == {i \in 1..Len(opts_model) : opts_model[i][1] = k}

\* The options of the config section that the model does not know.
Unused == {opts_model[i][1] : i \in {j \in 1..Len(opts_model) :
                                        opts_model[j][1] \notin DOMAIN set_defaults}}

\* C1: set_model_options returns a dict with exactly the keys of the
\* defaults; a key the config sets carries the config's value, every other
\* key its default; an option that is no default key is not in the result,
\* is logged as unused, and the call goes through.
C1_OptionsOverrideDefaults ==
    phase # "new" =>
        /\ DOMAIN self.model = DOMAIN set_defaults
        /\ \A k \in DOMAIN set_defaults :
              /\ \A i \in Sets(k) : self.model[k] = opts_model[i][2]
              /\ Sets(k) = {} => self.model[k] = set_defaults[k]
        /\ Unused \cap DOMAIN self.model = {}
        /\ {self.logged[i] : i \in 1..Len(self.logged)} = Unused
        /\ Len(self.logged) = Cardinality(Unused)
        /\ "topology" \in self.attrs

C1_Witness ==
    /\ phase # "new"
    /\ Unused # {}
    /\ \E i \in Sets("tied_emb") :
          /\ opts_model[i][2] # set_defaults["tied_emb"]
          /\ self.model["tied_emb"] = opts_model[i][2]
    /\ self.model["emb_dim"] = PyInt(128)

\* C2: forward(batch) returns the scalar loss itself, not a container
\* holding it.
C2_ForwardReturnsScalarLoss ==
    (call = "forward" /\ pc = "done") =>
        out = <<[op |-> "dec.loss",
                 ctx |-> (self.sl :> [op |-> "enc", x |-> batch[1][self.sl]]),
                 y |-> batch[1][self.tl]]>>

\* Batch i of the loader once it is on the device.
OnDevice(i) ==
    [l \in DOMAIN data_loader[i] |->
        [v |-> data_loader[i][l].v, dev |-> "gpu", kind |-> "Variable"]]

\* The non-pad entries of the target of batch i after its first row.
Items(i) ==
    LET rows == data_loader[i][self.tl].v
    IN  Cardinality({rc \in {<<r, c>> : r \in 2..Len(rows), c \in 1..Len(rows[1])} :
                        rows[rc[1]][rc[2]] # 0})

\* What decoding batch i against its target, from the encoding of its
\* source, yields.
Decoded(i, what) ==
    [op |-> what,
     ctx |-> (self.sl :> [op |-> "enc", x |-> OnDevice(i)[self.sl]]),
     y |-> OnDevice(i)[self.tl]]

ExpectedLossUpdate(i) == <<Decoded(i, "dec.loss"), Items(i)>>

ExpectedMrrUpdate(i) ==
    <<[v |-> Tail(data_loader[i][self.tl].v), dev |-> "gpu", kind |-> "Tensor"],
      Decoded(i, "dec.logps")>>

PerBatch == <<"to_gpu", "encode", "decode", "loss.update", "mrr.update">>

\* The events of the first n batches, batch after batch.
BatchEvents(n) ==
    [p \in 1..(Len(PerBatch) * n) |->
        Ev(PerBatch[((p - 1) % Len(PerBatch)) + 1], ((p - 1) \div Len(PerBatch)) + 1)]

\* C3: test_performance takes the batches one at a time in the loader's
\* order; per batch: to_gpu, encode, decode, loss.update(out['loss'],
\* out['n_items']), mrr.update(target without its first row, out['logps']),
\* each once and in this order; the metrics are read only after the last
\* batch, and no batch is skipped or taken twice.
C3_BatchesInOrderThenMetrics ==
    call = "test_performance" =>
        LET n    == Len(data_loader)
            body == Len(PerBatch) * n
        IN  /\ \A p \in 1..Len(events) :
                  p <= body => events[p] = BatchEvents(n)[p]
            /\ Len(events) > body =>
                  /\ pc \in {"done", "raised"}
                  /\ \/ /\ pc = "done"
                        /\ SubSeq(events, body + 1, Len(events))
                              = <<Ev("loss.get", 0), Ev("normalized_mrr", 0)>>
                     \/ /\ pc = "raised"
                        /\ SubSeq(events, body + 1, Len(events))
                              = <<Ev("loss.get", 0)>>
            /\ pc \in {"done", "raised"} => Len(events) > body
            /\ Len(loss) <= n /\ Len(mrr.updates) <= n
            /\ \A i \in 1..Len(loss) : loss[i] = ExpectedLossUpdate(i)
            /\ \A i \in 1..Len(mrr.updates) : mrr.updates[i] = ExpectedMrrUpdate(i)
            /\ Len(loss) = Cardinality({p \in 1..Len(events) : events[p].ev = "loss.update"})
            /\ Len(mrr.updates)
                  = Cardinality({p \in 1..Len(events) : events[p].ev = "mrr.update"})
            /\ pc \in {"return", "done", "raised"} =>
                  Len(loss) = n /\ Len(mrr.updates) = n

C3_Witness ==
    /\ call = "test_performance"
    /\ pc = "done"
    /\ Len(data_loader) = 2
    /\ data_loader[1] # data_loader[2]
    /\ Len(events) = Len(PerBatch) * 2 + 2

\* C4: a test_performance call that completes returns exactly two metrics,
\* 'LOSS' (higher_better False) over all batches of the loader and then
\* 'MRR' (higher_better True) over all batches; the accumulators are fresh
\* in each call, so nothing of an earlier call shows in the result.
C4_TwoMetricsOverThisLoader ==
    (call = "test_performance" /\ pc = "done") =>
        /\ Len(result) = 1
        /\ Len(result[1]) = 2
        /\ result[1][1] =
              [name |-> "LOSS",
               score |-> [op |-> "Loss.get",
                          updates |-> [i \in 1..Len(data_loader) |->
                                          ExpectedLossUpdate(i)]],
               higher_better |-> FALSE]
        /\ result[1][2] =
              [name |-> "MRR",
               score |-> [op |-> "MeanReciprocalRank.normalized_mrr",
                          n |-> opts_vocabulary[tlangs[1]],
                          updates |-> [i \in 1..Len(data_loader) |->
                                          ExpectedMrrUpdate(i)]],
               higher_better |-> TRUE]

C4_Witness ==
    /\ call = "test_performance"
    /\ pc = "done"
    /\ returned = 2
    /\ events = <<Ev("loss.get", 0), Ev("normalized_mrr", 0)>>
    /\ data_loader = <<>>
    /\ Len(result) = 1

\* The sizes of the vocabularies of the first source and target language,
\* where the configuration defines both.
SizesKnown ==
    /\ slangs # <<>> /\ tlangs # <<>>
    /\ slangs[1] \in DOMAIN opts_vocabulary
    /\ tlangs[1] \in DOMAIN opts_vocabulary

SizesDiffer == opts_vocabulary[slangs[1]] # opts_vocabulary[tlangs[1]]

\* C5 as stated: with tied_emb '3way', construction succeeds only with
\* equal source and target vocabulary sizes; with different sizes it fails
\* with the assertion error and there is no model; for any other tied_emb
\* the sizes are not compared.
C5_Original ==
    /\ (phase \in {"constructed", "ready"} /\ self.model["tied_emb"] = PyStr("3way"))
          => (SizesKnown /\ ~SizesDiffer)
    /\ (phase # "new" /\ self.model["tied_emb"] = PyStr("3way")
          /\ SizesKnown /\ SizesDiffer)
          => (phase = "failed" /\ self.err = AssertMsg /\ enc = NoEnc /\ dec = NoDec)
    /\ (phase # "new" /\ self.err = AssertMsg)
          => (self.model["tied_emb"] = PyStr("3way") /\ SizesKnown /\ SizesDiffer)

\* C5, amended: with tied_emb '3way', construction succeeds only with equal
\* source and target vocabulary sizes; with different sizes it fails and
\* there is no model: with the assertion error when self.ctx_sizes was set
\* (enc_dim * 2 could be computed), with the TypeError of enc_dim * 2
\* otherwise, which is raised before the sizes are looked at.  The
\* assertion error occurs only with '3way' and different sizes; for any
\* other tied_emb the sizes are not compared.
C5_ThreeWayNeedsEqualVocabs ==
    /\ (phase \in {"constructed", "ready"} /\ self.model["tied_emb"] = PyStr("3way"))
          => (SizesKnown /\ ~SizesDiffer)
    /\ (phase # "new" /\ self.model["tied_emb"] = PyStr("3way")
          /\ SizesKnown /\ SizesDiffer)
          => /\ phase = "failed" /\ enc = NoEnc /\ dec = NoDec
             /\ "ctx_sizes" \in self.attrs => self.err = AssertMsg
             /\ "ctx_sizes" \notin self.attrs => self.err = "TypeError"
             /\ ("ctx_sizes" \in self.attrs) <=> (self.model["enc_dim"] # PyNone)
    /\ (phase # "new" /\ self.err = AssertMsg)
          => (self.model["tied_emb"] = PyStr("3way") /\ SizesKnown /\ SizesDiffer)
    /\ (phase # "new" /\ self.model["tied_emb"] # PyStr("3way") /\ SizesKnown
          /\ "ctx_sizes" \in self.attrs /\ tlangs[1] \in opts_val_set)
          => phase \in {"constructed", "ready"}

C5_Witness ==
    /\ phase = "failed"
    /\ self.err = AssertMsg
    /\ SizesKnown /\ SizesDiffer
    /\ Sets("tied_emb") # {}
    /\ Sets("enc_dim") # {}
    /\ self.ctx_sizes = (slangs[1] :> PyInt(1024))

\* C6: after setup() the encoder's and the decoder's embedding weight are
\* the same object exactly when tied_emb is '3way'; for any other value
\* the encoder keeps the embedding weight it was created with.
C6_SharedWeightIffThreeWay ==
    phase = "ready" =>
        /\ (enc.emb_weight = dec.emb_weight) <=> (self.model["tied_emb"] = PyStr("3way"))
        /\ self.model["tied_emb"] # PyStr("3way") => enc.emb_weight = "enc.emb.weight"
        /\ dec.emb_weight = "dec.emb.weight"

C6_Witness ==
    /\ phase = "ready"
    /\ self.model["tied_emb"] = PyStr("3way")
    /\ enc.emb_weight = dec.emb_weight
    /\ enc.n_vocab = dec.n_vocab

=============================================================================
